---------------------------- MODULE Spec2Model ----------------------------
(***************************************************************************)
(* A model of the Vaidya frontend: the API client (ApiService: request,    *)
(* login, logout, refreshToken, clearAuthData over browser local storage)  *)
(* and the Chat view (file selection, upload, sendMessage).                *)
(*                                                                         *)
(* The browser runs one event loop: every action below is one task of it,  *)
(* from the event that starts it (a user event, a call, a network answer,  *)
(* a timer) to the next await that needs the network.  A fetch and the     *)
(* reading of its body are one answer of the server.                       *)
(***************************************************************************)
EXTENDS Integers, Sequences, FiniteSets, TLC

(***************************************************************************)
(* Bounds of the model.                                                    *)
(***************************************************************************)
\* concurrent calls of the API client (call slots)
MaxCalls == 2
\* token pairs the server issues (login and refresh responses); a request
\* is sent again only after a successful refresh, so this bounds the sends too
MaxIssue == 2

\* calls of sendMessage in the Chat view
MaxSendCalls == 2
\* milliseconds the clock advances while the Chat view is open
MaxTicks == 2
\* network calls of the Chat view in flight at once
MaxInflight == 2

Calls == 1..MaxCalls

\* a call counts its sends and its refreshes up to MaxCount; it gets there
\* when the server has issued MaxIssue token pairs, and beyond only when the
\* server goes on issuing tokens (RefreshAgain)
MaxCount == MaxIssue + 1
Count(n) == IF n < MaxCount THEN n + 1 ELSE n

(***************************************************************************)
(* Local storage.  Every value is a tuple: NULL is what getItem returns    *)
(* for an absent key, a token is tagged with the field of the response it  *)
(* was read from and the number of that response.                          *)
(***************************************************************************)
ACCESS_TOKEN == "vaidya_access_token"
REFRESH_TOKEN == "vaidya_refresh_token"
USER_DATA == "vaidya_user_data"
CHAT_HISTORY == "vaidya_chat_history"
STORAGE_KEYS == {ACCESS_TOKEN, REFRESH_TOKEN, USER_DATA, CHAT_HISTORY}

NULL == << >>
AccessTok(n) == <<"access_token", n>>
RefreshTok(n) == <<"refresh_token", n>>
UserData == <<"user">>
History == <<"history">>

\* the body of a successful login or refresh response
TokenData(n) == [access_token |-> AccessTok(n), refresh_token |-> RefreshTok(n)]

\* JavaScript truthiness of a storage value: null and "" are falsy; the
\* tokens of the model are non-empty strings
Truthy(v) == v # NULL

getItem(store, key) == store[key]
setItem(store, key, v) == [store EXCEPT ![key] = v]
removeItem(store, key) == [store EXCEPT ![key] = NULL]

VARIABLES
  ls,         \* localStorage: key -> value
  op,         \* op[p]: the ApiService method call slot p runs
  pc,         \* pc[p]: where that call is
  hdr,        \* hdr[p]: the Authorization header of p's request in flight
  timer,      \* timer[p]: the timeout timer of p's request is pending
  status,     \* status[p]: response.status of p's request (0: no response)
  sends,      \* sends[p]: requests this call has sent
  refreshes,  \* refreshes[p]: token refreshes this call has started
  outcome,    \* outcome[p]: how the call settled
  thrown,     \* thrown[p]: the error the call rejected with, NULL for none
  overlap,    \* a writer of the tokens completed while another was in flight
  issued,     \* token pairs the server has issued
  lastWrite   \* the tokens of the writer that completed last

apiVars == <<ls, op, pc, hdr, timer, status, sends, refreshes, outcome, thrown,
             overlap, issued, lastWrite>>

VARIABLES
  messages,       \* Chat: the message list
  inputMessage,   \* Chat: the text of the input, a sequence of characters
  isLoading,      \* Chat: a chat query is awaited
  isUploading,    \* Chat: an upload is awaited
  selectedFile,   \* Chat: the selected file, NULL for none
  uploadProgress, \* Chat: percent uploaded
  fileInput,      \* the file the hidden file input holds, NULL for none
  toast,          \* the toast raised last
  inflight,       \* the network calls awaited, each with the inputMessage and
                  \* selectedFile its sendMessage call closed over
  lastNet,        \* how the network call that settled last ended
  nCalls,         \* calls of sendMessage so far
  trigger,        \* the event that called sendMessage last
  now,            \* Date.now()
  ids             \* ids[j]: the id of messages[j]

chatVars == <<messages, inputMessage, isLoading, isUploading, selectedFile,
              uploadProgress, fileInput, toast, inflight, lastNet, nCalls,
              trigger, now, ids>>

VARIABLES
  currentView,    \* App: the view chosen
  isLoggedIn,     \* App: the user is logged in
  symptomResults, \* App: the results of the analysis made last, NULL for none
  appIsLoading,   \* App: isLoading, shared by the login and the analysis
  username,       \* LoginForm: the user name entered
  password,       \* LoginForm: the password entered
  loginError,     \* LoginForm: error
  symptoms,       \* SymptomChecker: the symptom fields
  symptomError,   \* SymptomChecker: error
  awaited,        \* the call awaited: "login" (onLogin), "analyze" (onAnalyze)
                  \* or "none"
  awaitedArg,     \* the argument of the call awaited
  awaitedMounted, \* the component that made the call awaited is mounted
  appEvent,       \* the handler of the App, LoginForm or SymptomChecker run last
  appIndex        \* the index that handler was called with, 0 for none

appVars == <<currentView, isLoggedIn, symptomResults, appIsLoading, username,
             password, loginError, symptoms, symptomError, awaited, awaitedArg,
             awaitedMounted, appEvent, appIndex>>

vars == <<apiVars, chatVars, appVars>>

\* what the actions of the API client, of the Chat view, and of the App with
\* its login form and symptom checker, leave alone
notApi == <<chatVars, appVars>>
notChat == <<apiVars, appVars>>
notApp == <<apiVars, chatVars>>

(***************************************************************************)
(* ApiService                                                              *)
(***************************************************************************)
\* a slip of getAuthHeaders: the header is built from the refresh token
getAuthHeadersFromRefresh(store) ==
  LET token == getItem(store, REFRESH_TOKEN)
  IN IF Truthy(token) THEN <<"Bearer", token>> ELSE NULL

\* getAuthHeaders: the Authorization header, NULL for none
getAuthHeaders(store) ==
  LET token == getItem(store, ACCESS_TOKEN)
  IN IF Truthy(token) THEN <<"Bearer", token>> ELSE NULL

isAuthenticated(store) == Truthy(getItem(store, ACCESS_TOKEN))

\* a slip of clearAuthData: localStorage.clear()
clearAuthDataEverything(store) == [k \in DOMAIN store |-> NULL]

\* clearAuthData, and the finally block of logout
clearAuthData(store) ==
  removeItem(removeItem(removeItem(store, ACCESS_TOKEN), REFRESH_TOKEN), USER_DATA)

\* a slip of the token update: the refresh token is not stored
StoreTokensAccessOnly(store, data) ==
  setItem(store, ACCESS_TOKEN, data.access_token)

\* login and refreshToken: "Store tokens" / "Update tokens"
StoreTokens(store, data) ==
  setItem(setItem(store, ACCESS_TOKEN, data.access_token),
          REFRESH_TOKEN, data.refresh_token)

\* a slip of refreshToken: a failed refresh removes the access token only
ClearTokensAccessOnly(store) == removeItem(store, ACCESS_TOKEN)

\* a slip of refreshToken: a failed refresh removes the user data too
ClearTokensAndUserData(store) ==
  removeItem(removeItem(removeItem(store, ACCESS_TOKEN), REFRESH_TOKEN), USER_DATA)

\* refreshToken: "Refresh failed, clear tokens"
ClearTokens(store) == removeItem(removeItem(store, ACCESS_TOKEN), REFRESH_TOKEN)

\* response.ok
IsOk(st) == st \in 200..299

\* a slip of request: every non-OK answer starts a token refresh
NeedsRefreshAnyError(st) == ~(st \in 200..299)

\* request: the non-OK statuses that start a token refresh
NeedsRefresh(st) == st = 401

\* a slip of logout: the keys are removed after the await, not in a finally
AfterRequestNoFinally(o, res, store) ==
  IF o = "logout" /\ res = "ok" THEN clearAuthData(store) ELSE store

\* a slip of request: its catch block clears the auth data for every caller
AfterRequestClearsOnError(o, res, store) ==
  IF o = "logout" \/ res = "error" THEN clearAuthData(store) ELSE store

\* the storage once the caller of request has resumed: the finally block of
\* logout runs whatever request did, no other method touches the storage
AfterRequest(o, res, store) ==
  IF o = "logout" THEN clearAuthData(store) ELSE store

Statuses == {200, 401, 500}

\* the errors a call rejects with: the rejection of an aborted fetch, the
\* rejection of a fetch the network failed, and the errors the client throws
ABORT_ERROR == <<"AbortError">>
FETCH_ERROR == <<"TypeError">>
HttpError(st) == <<"HTTP error! status: ", st>>
NO_REFRESH_TOKEN == <<"No refresh token available">>
REFRESH_FAILED == <<"Token refresh failed">>
LOGIN_FAILED == <<"Login failed">>

\* a slip of request: the timer is left pending
clearTimeoutForgotten(pending) == pending

\* clearTimeout(timeoutId): the timer is no longer pending
clearTimeout(pending) == FALSE

\* the storage a page load finds: no session, or the tokens an earlier
\* login left (response 0), with or without user data
ApiStart(session, u) ==
  /\ ls = [k \in STORAGE_KEYS |->
             CASE k = ACCESS_TOKEN -> IF session THEN AccessTok(0) ELSE NULL
               [] k = REFRESH_TOKEN -> IF session THEN RefreshTok(0) ELSE NULL
               [] k = USER_DATA -> u
               [] OTHER -> History]
  /\ lastWrite = IF session THEN TokenData(0)
                 ELSE [access_token |-> NULL, refresh_token |-> NULL]
  /\ issued = 0
  /\ op = [p \in Calls |-> "none"]
  /\ pc = [p \in Calls |-> "idle"]
  /\ hdr = [p \in Calls |-> NULL]
  /\ timer = [p \in Calls |-> FALSE]
  /\ status = [p \in Calls |-> 0]
  /\ sends = [p \in Calls |-> 0]
  /\ refreshes = [p \in Calls |-> 0]
  /\ outcome = [p \in Calls |-> "none"]
  /\ thrown = [p \in Calls |-> NULL]
  /\ overlap = FALSE

ApiInit == \E session \in BOOLEAN, u \in {NULL, UserData} : ApiStart(session, u)

\* a call slot runs one call, and the slots are taken in order
Free(p) == pc[p] = "idle" /\ (IF p = 1 THEN TRUE ELSE pc[p - 1] # "idle")

NoTokens == [access_token |-> NULL, refresh_token |-> NULL]

\* another call is waiting for a login or refresh response
WriterInFlight(p) == \E q \in Calls \ {p} : pc[q] \in {"refresh", "loginFetch"}

\* the call of p settles with result res, rejecting with e when e is not
\* NULL, and its request is gone; store is the storage its last step left,
\* w the tokens that step wrote (lastWrite when it wrote none)
Settle(p, res, e, store, w) ==
  /\ pc' = [pc EXCEPT ![p] = "done"]
  /\ outcome' = [outcome EXCEPT ![p] = res]
  /\ thrown' = [thrown EXCEPT ![p] = e]
  /\ hdr' = [hdr EXCEPT ![p] = NULL]
  /\ timer' = [timer EXCEPT ![p] = clearTimeout(@)]
  /\ ls' = AfterRequest(op[p], res, store)
  /\ lastWrite' = IF op[p] = "logout" THEN NoTokens ELSE w
  /\ overlap' = (overlap \/ (w # lastWrite /\ WriterInFlight(p)))

\* request(endpoint, options), called by logout (o = "logout") or by any
\* other method that only returns this.request(...) (o = "request"): the
\* timer is started and the request sent with the auth headers of now
CallRequest(p, o) ==
  /\ Free(p)
  /\ o \in {"request", "logout"}
  /\ op' = [op EXCEPT ![p] = o]
  /\ pc' = [pc EXCEPT ![p] = "fetch"]
  /\ hdr' = [hdr EXCEPT ![p] = getAuthHeaders(ls)]
  /\ timer' = [timer EXCEPT ![p] = TRUE]
  /\ sends' = [sends EXCEPT ![p] = 1]
  /\ UNCHANGED <<ls, status, refreshes, outcome, thrown, overlap, issued,
                 lastWrite>>
  /\ UNCHANGED notApi

\* the server answers p's request with status st: clearTimeout, then the
\* body is returned, or refreshToken is called, or the error is thrown.
\* refreshToken throws at once when no refresh token is stored.
Respond(p, st) ==
  /\ pc[p] = "fetch"
  /\ st \in Statuses
  /\ status' = [status EXCEPT ![p] = st]
  /\ IF IsOk(st)
     THEN /\ Settle(p, "ok", NULL, ls, lastWrite)
          /\ UNCHANGED refreshes
     ELSE IF NeedsRefresh(st)
     THEN /\ refreshes' = [refreshes EXCEPT ![p] = Count(@)]
          /\ IF Truthy(getItem(ls, REFRESH_TOKEN))
             THEN /\ pc' = [pc EXCEPT ![p] = "refresh"]
                  /\ timer' = [timer EXCEPT ![p] = clearTimeout(@)]
                  /\ UNCHANGED <<ls, hdr, outcome, thrown, overlap, lastWrite>>
             ELSE Settle(p, "error", NO_REFRESH_TOKEN, ls, lastWrite)
     ELSE /\ Settle(p, "error", HttpError(st), ls, lastWrite)
          /\ UNCHANGED refreshes
  /\ UNCHANGED <<op, sends, issued>>
  /\ UNCHANGED notApi

\* fetch rejects (no answer from the network): catch, clearTimeout, rethrow
NetworkError(p) ==
  /\ pc[p] = "fetch"
  /\ Settle(p, "error", FETCH_ERROR, ls, lastWrite)
  /\ UNCHANGED <<op, status, sends, refreshes, issued>>
  /\ UNCHANGED notApi

\* the timer fires: controller.abort() rejects the fetch, catch rethrows
Timeout(p) ==
  /\ pc[p] = "fetch"
  /\ timer[p]
  /\ Settle(p, "error", ABORT_ERROR, ls, lastWrite)
  /\ UNCHANGED <<op, status, sends, refreshes, issued>>
  /\ UNCHANGED notApi

\* the refresh endpoint answers the refresh a 401 started.  ok: the tokens
\* are updated and the request is sent again (request calls itself);
\* not ok: the tokens are removed and refreshToken throws
RefreshRespond(p, ok) ==
  /\ pc[p] = "refresh"
  /\ op[p] \in {"request", "logout"}
  /\ IF ok
     THEN /\ issued < MaxIssue
          /\ issued' = issued + 1
          /\ ls' = StoreTokens(ls, TokenData(issued + 1))
          /\ lastWrite' = TokenData(issued + 1)
          /\ overlap' = (overlap \/ WriterInFlight(p))
          /\ pc' = [pc EXCEPT ![p] = "fetch"]
          /\ hdr' = [hdr EXCEPT ![p] = getAuthHeaders(ls')]
          /\ timer' = [timer EXCEPT ![p] = TRUE]
          /\ status' = [status EXCEPT ![p] = 0]
          /\ sends' = [sends EXCEPT ![p] = @ + 1]
          /\ UNCHANGED <<outcome, thrown>>
     ELSE /\ Settle(p, "error", REFRESH_FAILED, ClearTokens(ls), NoTokens)
          /\ UNCHANGED <<status, sends, issued>>
  /\ UNCHANGED <<op, refreshes>>
  /\ UNCHANGED notApi

\* the refresh endpoint answers OK after the MaxIssue pairs the model
\* numbers: the new pair is identified with the last numbered one, the
\* tokens are updated and the request is sent again as in RefreshRespond
RefreshAgain(p) ==
  /\ pc[p] = "refresh"
  /\ op[p] \in {"request", "logout"}
  /\ issued = MaxIssue
  /\ ls' = StoreTokens(ls, TokenData(MaxIssue))
  /\ lastWrite' = TokenData(MaxIssue)
  /\ overlap' = (overlap \/ WriterInFlight(p))
  /\ pc' = [pc EXCEPT ![p] = "fetch"]
  /\ hdr' = [hdr EXCEPT ![p] = getAuthHeaders(ls')]
  /\ timer' = [timer EXCEPT ![p] = TRUE]
  /\ status' = [status EXCEPT ![p] = 0]
  /\ sends' = [sends EXCEPT ![p] = Count(@)]
  /\ UNCHANGED <<op, refreshes, outcome, thrown, issued>>
  /\ UNCHANGED notApi

\* the fetch of refreshToken rejects: nothing is removed, the error is thrown
RefreshNetworkError(p) ==
  /\ pc[p] = "refresh"
  /\ Settle(p, "error", FETCH_ERROR, ls, lastWrite)
  /\ UNCHANGED <<op, status, sends, refreshes, issued>>
  /\ UNCHANGED notApi

\* login(credentials): a fetch of its own, no auth header, no timer
CallLogin(p) ==
  /\ Free(p)
  /\ op' = [op EXCEPT ![p] = "login"]
  /\ pc' = [pc EXCEPT ![p] = "loginFetch"]
  /\ UNCHANGED <<ls, hdr, timer, status, sends, refreshes, outcome, thrown,
                 overlap, issued, lastWrite>>
  /\ UNCHANGED notApi

\* a slip of login: an answer that is not ok clears the tokens, as a failed
\* refresh does
LoginRespondClearsOnFailure(p, st) ==
  /\ pc[p] = "loginFetch"
  /\ st \in Statuses
  /\ status' = [status EXCEPT ![p] = st]
  /\ IF IsOk(st)
     THEN /\ issued < MaxIssue
          /\ issued' = issued + 1
          /\ Settle(p, "ok", NULL, StoreTokens(ls, TokenData(issued + 1)),
                    TokenData(issued + 1))
     ELSE /\ Settle(p, "error", LOGIN_FAILED, ClearTokens(ls), NoTokens)
          /\ UNCHANGED issued
  /\ UNCHANGED <<op, sends, refreshes>>
  /\ UNCHANGED notApi

\* the login endpoint answers: not ok throws 'Login failed', ok stores the
\* tokens of the response
LoginRespond(p, st) ==
  /\ pc[p] = "loginFetch"
  /\ st \in Statuses
  /\ status' = [status EXCEPT ![p] = st]
  /\ IF IsOk(st)
     THEN /\ issued < MaxIssue
          /\ issued' = issued + 1
          /\ Settle(p, "ok", NULL, StoreTokens(ls, TokenData(issued + 1)),
                    TokenData(issued + 1))
     ELSE /\ Settle(p, "error", LOGIN_FAILED, ls, lastWrite)
          /\ UNCHANGED issued
  /\ UNCHANGED <<op, sends, refreshes>>
  /\ UNCHANGED notApi

\* the fetch of login rejects: the error is thrown
LoginNetworkError(p) ==
  /\ pc[p] = "loginFetch"
  /\ Settle(p, "error", FETCH_ERROR, ls, lastWrite)
  /\ UNCHANGED <<op, status, sends, refreshes, issued>>
  /\ UNCHANGED notApi

\* refreshToken() called directly: throws at once without a refresh token
CallRefreshToken(p) ==
  /\ Free(p)
  /\ op' = [op EXCEPT ![p] = "refreshToken"]
  /\ refreshes' = [refreshes EXCEPT ![p] = 1]
  /\ IF Truthy(getItem(ls, REFRESH_TOKEN))
     THEN /\ pc' = [pc EXCEPT ![p] = "refresh"]
          /\ UNCHANGED <<outcome, thrown>>
     ELSE /\ pc' = [pc EXCEPT ![p] = "done"]
          /\ outcome' = [outcome EXCEPT ![p] = "error"]
          /\ thrown' = [thrown EXCEPT ![p] = NO_REFRESH_TOKEN]
  /\ UNCHANGED <<ls, hdr, timer, status, sends, overlap, issued, lastWrite>>
  /\ UNCHANGED notApi

\* the refresh endpoint answers a direct refreshToken()
DirectRefreshRespond(p, ok) ==
  /\ pc[p] = "refresh"
  /\ op[p] = "refreshToken"
  /\ IF ok
     THEN /\ issued < MaxIssue
          /\ issued' = issued + 1
          /\ Settle(p, "ok", NULL, StoreTokens(ls, TokenData(issued + 1)),
                    TokenData(issued + 1))
     ELSE /\ Settle(p, "error", REFRESH_FAILED, ClearTokens(ls), NoTokens)
          /\ UNCHANGED issued
  /\ UNCHANGED <<op, status, sends, refreshes>>
  /\ UNCHANGED notApi

\* clearAuthData(): synchronous
ClearAuthData ==
  /\ ls' = clearAuthData(ls)
  /\ lastWrite' = NoTokens
  /\ UNCHANGED <<op, pc, hdr, timer, status, sends, refreshes, outcome, thrown,
                 overlap, issued>>
  /\ UNCHANGED notApi

ApiNext ==
  \/ \E p \in Calls, o \in {"request", "logout"} : CallRequest(p, o)
  \/ \E p \in Calls, st \in Statuses : Respond(p, st)
  \/ \E p \in Calls : NetworkError(p)
  \/ \E p \in Calls : Timeout(p)
  \/ \E p \in Calls, ok \in BOOLEAN : RefreshRespond(p, ok)
  \/ \E p \in Calls : RefreshNetworkError(p)
  \/ \E p \in Calls : CallLogin(p)
  \/ \E p \in Calls, st \in Statuses : LoginRespond(p, st)
  \/ \E p \in Calls : LoginNetworkError(p)
  \/ \E p \in Calls : CallRefreshToken(p)
  \/ \E p \in Calls, ok \in BOOLEAN : DirectRefreshRespond(p, ok)
  \/ ClearAuthData


(***************************************************************************)
(* The Chat view                                                           *)
(***************************************************************************)
MAX_FILE_SIZE == 10 * 1024 * 1024

\* the files the user can pick: <<name, size>>
File(name, size) == <<name, size>>
FileName(f) == f[1]
FileSize(f) == f[2]
Files == {File("report.pdf", sz) :
            sz \in {0, MAX_FILE_SIZE, MAX_FILE_SIZE + 1, 2 * MAX_FILE_SIZE}}

\* the texts the user can have in the input: empty, blank, plain, padded
Texts == {<< >>, <<" ">>, <<"h", "i">>, <<" ", "h", "i", " ">>}

Whitespace == {" "}

\* String.prototype.trim
RECURSIVE TrimLeft(_)
TrimLeft(s) ==
  IF s # << >> /\ Head(s) \in Whitespace THEN TrimLeft(Tail(s)) ELSE s

RECURSIVE TrimRight(_)
TrimRight(s) ==
  IF s # << >> /\ s[Len(s)] \in Whitespace
  THEN TrimRight(SubSeq(s, 1, Len(s) - 1)) ELSE s

trim(s) == TrimRight(TrimLeft(s))

\* a slip of the emptiness test: the text is not trimmed
BlankUntrimmed(s) == s = << >>

\* !inputMessage.trim()
Blank(s) == trim(s) = << >>

\* a slip of the size check: a file of exactly the limit is rejected
TooLargeInclusive(size) == size >= MAX_FILE_SIZE

\* a slip of the size check: the limit is ten times too high
TooLargeTenfold(size) == size > 10 * MAX_FILE_SIZE

\* handleFileChange: file.size > 10 * 1024 * 1024
TooLarge(size) == size > MAX_FILE_SIZE

SIZE_ERROR == "File size should be less than 10MB"
UPLOAD_OK == "Document uploaded successfully!"
UPLOAD_ERROR == "Error: Failed to upload document"

GREETING == <<"Hello! I'm Vaidya, your AI medical assistant.">>
APOLOGY == <<"I apologize, but I'm having trouble processing your request right now.">>
Answers == {<<"answer">>}

GreetingMessage == [type |-> "none", content |-> GREETING, isFromUser |-> FALSE]
UserMessage(text) == [type |-> "user", content |-> text, isFromUser |-> TRUE]
AiMessage(answer) == [type |-> "assistant", content |-> answer, isFromUser |-> FALSE]
ApologyMessage == [type |-> "system", content |-> APOLOGY, isFromUser |-> FALSE]
SystemMessage(f) ==
  [type |-> "system",
   content |-> <<"Document ", FileName(f), " has been uploaded and processed.">>,
   isFromUser |-> FALSE]

\* message ids are strings: a prefix and the digits of a number
GREETING_ID == 1
NumId(n) == <<"", n>>
DocId(n) == <<"doc-", n>>

\* the clock when the Chat view is mounted: some time after 1 ms of the epoch
MountTime == GREETING_ID + 1

\* the ids after "If there's a message to send, send it" at clock t
WithUserId(idseq, text, t) ==
  IF trim(text) = << >> THEN idseq ELSE Append(idseq, NumId(t))

\* Math.round(n / d) for n >= 0, d > 0
Round(n, d) == (2 * n + d) \div (2 * d)

ProgressEvents ==
  {[lengthComputable |-> TRUE, loaded |-> 1, total |-> 3],
   [lengthComputable |-> TRUE, loaded |-> 3, total |-> 3],
   [lengthComputable |-> FALSE, loaded |-> 1, total |-> 3]}

\* the disabled attributes of the text input, the send button, the file
\* input and the remove button
InputDisabled == isLoading \/ isUploading

\* a slip of the send button: it stays enabled while a call is awaited
SendDisabledNotWhileBusy == Blank(inputMessage) /\ selectedFile = NULL

SendDisabled ==
  isLoading \/ isUploading \/ (Blank(inputMessage) /\ selectedFile = NULL)

FileInputDisabled == isUploading

RemoveDisabled == isUploading

Remove(seq, i) == SubSeq(seq, 1, i - 1) \o SubSeq(seq, i + 1, Len(seq))

ChatInit ==
  /\ messages = <<GreetingMessage>>
  /\ inputMessage = << >>
  /\ isLoading = FALSE
  /\ isUploading = FALSE
  /\ selectedFile = NULL
  /\ uploadProgress = 0
  /\ fileInput = NULL
  /\ toast = "none"
  /\ inflight = << >>
  /\ lastNet = "none"
  /\ nCalls = 0
  /\ trigger = "none"
  /\ now = MountTime
  /\ ids = <<NumId(GREETING_ID)>>

\* the input's onChange
TypeInput(t) ==
  /\ ~InputDisabled
  /\ t \in Texts /\ t # inputMessage
  /\ inputMessage' = t
  /\ UNCHANGED <<messages, ids, isLoading, isUploading, selectedFile, uploadProgress,
                 fileInput, toast, inflight, lastNet, nCalls, trigger, now>>
  /\ UNCHANGED notChat

\* handleFileChange: the file input changed to f (NULL: the choice was
\* cancelled and e.target.files is empty)
handleFileChange(f) ==
  /\ ~FileInputDisabled
  /\ f \in Files \cup {NULL} /\ f # fileInput
  /\ fileInput' = f
  /\ IF f = NULL
     THEN UNCHANGED <<selectedFile, toast>>
     ELSE IF TooLarge(FileSize(f))
     THEN /\ toast' = SIZE_ERROR
          /\ UNCHANGED selectedFile
     ELSE /\ selectedFile' = f
          /\ UNCHANGED toast
  /\ UNCHANGED <<messages, ids, inputMessage, isLoading, isUploading, uploadProgress,
                 inflight, lastNet, nCalls, trigger, now>>
  /\ UNCHANGED notChat

\* removeFile, from the remove button of the file preview
removeFile ==
  /\ selectedFile # NULL
  /\ ~RemoveDisabled
  /\ selectedFile' = NULL
  /\ fileInput' = NULL
  /\ UNCHANGED <<messages, ids, inputMessage, isLoading, isUploading, uploadProgress,
                 toast, inflight, lastNet, nCalls, trigger, now>>
  /\ UNCHANGED notChat

\* a slip of the order: the user message goes in front of the last message
WithUserMessageBeforeLast(msgs, text) ==
  IF trim(text) = << >> THEN msgs
  ELSE SubSeq(msgs, 1, Len(msgs) - 1) \o <<UserMessage(text), msgs[Len(msgs)]>>

\* the messages after "If there's a message to send, send it" for the text
\* the call closed over
WithUserMessage(msgs, text) ==
  IF Blank(text) THEN msgs ELSE Append(msgs, UserMessage(text))

\* sendMessage, up to its first await: nothing when there is neither text
\* nor file; uploadFile first when a file is selected; else the user
\* message is appended and the chat query sent
sendMessage ==
  /\ nCalls < MaxSendCalls
  /\ Len(inflight) < MaxInflight
  /\ nCalls' = nCalls + 1
  /\ IF Blank(inputMessage) /\ selectedFile = NULL
     THEN UNCHANGED <<messages, ids, inputMessage, isLoading, isUploading,
                      uploadProgress, inflight>>
     ELSE IF selectedFile # NULL
     THEN /\ isUploading' = TRUE
          /\ uploadProgress' = 0
          /\ inflight' = Append(inflight, [stage |-> "upload",
                                           text |-> inputMessage,
                                           file |-> selectedFile])
          /\ UNCHANGED <<messages, ids, inputMessage, isLoading>>
     ELSE /\ messages' = WithUserMessage(messages, inputMessage)
          /\ ids' = WithUserId(ids, inputMessage, now)
          /\ inputMessage' = << >>
          /\ isLoading' = TRUE
          /\ inflight' = Append(inflight, [stage |-> "query",
                                           text |-> inputMessage,
                                           file |-> NULL])
          /\ UNCHANGED <<isUploading, uploadProgress>>
  /\ UNCHANGED <<selectedFile, fileInput, toast, lastNet, now>>
  /\ UNCHANGED notChat

\* the send button's onClick
ClickSend ==
  /\ ~SendDisabled
  /\ trigger' = "click"
  /\ sendMessage

\* the input's onKeyPress for the Enter key: e.key === 'Enter' && sendMessage()
PressEnter(shiftKey) ==
  /\ ~InputDisabled
  /\ shiftKey \in BOOLEAN
  /\ trigger' = IF shiftKey THEN "Shift+Enter" ELSE "Enter"
  /\ sendMessage

\* uploadFile: a progress event of the upload
UploadProgress(i, ev) ==
  /\ i \in 1..Len(inflight)
  /\ inflight[i].stage = "upload"
  /\ ev \in ProgressEvents
  /\ ev.lengthComputable
  /\ uploadProgress' = Round(ev.loaded * 100, ev.total)
  /\ UNCHANGED <<messages, ids, inputMessage, isLoading, isUploading, selectedFile,
                 fileInput, toast, inflight, lastNet, nCalls, trigger, now>>
  /\ UNCHANGED notChat

\* the upload resolves: success toast, removeFile, the system message, the
\* finally block; then sendMessage goes on with the text it closed over
UploadOk(i) ==
  /\ i \in 1..Len(inflight)
  /\ inflight[i].stage = "upload"
  /\ toast' = UPLOAD_OK
  /\ selectedFile' = NULL
  /\ fileInput' = NULL
  /\ isUploading' = FALSE
  /\ uploadProgress' = 0
  /\ lastNet' = "upload:ok"
  /\ messages' = WithUserMessage(Append(messages, SystemMessage(inflight[i].file)),
                                 inflight[i].text)
  /\ ids' = WithUserId(Append(ids, DocId(now)), inflight[i].text, now)
  /\ IF Blank(inflight[i].text)
     THEN /\ inflight' = Remove(inflight, i)
          /\ UNCHANGED <<inputMessage, isLoading>>
     ELSE /\ inflight' = [inflight EXCEPT ![i].stage = "query"]
          /\ inputMessage' = << >>
          /\ isLoading' = TRUE
  /\ UNCHANGED <<nCalls, trigger, now>>
  /\ UNCHANGED notChat

\* a slip of sendMessage: its catch block does not return, and the text is
\* sent after the failed upload
UploadFailedGoesOn(i) ==
  /\ i \in 1..Len(inflight)
  /\ inflight[i].stage = "upload"
  /\ toast' = UPLOAD_ERROR
  /\ isUploading' = FALSE
  /\ uploadProgress' = 0
  /\ lastNet' = "upload:failed"
  /\ messages' = WithUserMessage(messages, inflight[i].text)
  /\ ids' = WithUserId(ids, inflight[i].text, now)
  /\ IF Blank(inflight[i].text)
     THEN /\ inflight' = Remove(inflight, i)
          /\ UNCHANGED <<inputMessage, isLoading>>
     ELSE /\ inflight' = [inflight EXCEPT ![i].stage = "query"]
          /\ inputMessage' = << >>
          /\ isLoading' = TRUE
  /\ UNCHANGED <<selectedFile, fileInput, nCalls, trigger, now>>
  /\ UNCHANGED notChat

\* the upload rejects: error toast, the finally block, uploadFile rethrows
\* and sendMessage returns
UploadFailed(i) ==
  /\ i \in 1..Len(inflight)
  /\ inflight[i].stage = "upload"
  /\ toast' = UPLOAD_ERROR
  /\ isUploading' = FALSE
  /\ uploadProgress' = 0
  /\ lastNet' = "upload:failed"
  /\ inflight' = Remove(inflight, i)
  /\ UNCHANGED <<messages, ids, inputMessage, isLoading, selectedFile, fileInput,
                 nCalls, trigger, now>>
  /\ UNCHANGED notChat

\* a slip of the catch block: the apology takes the place of the last message
OnQueryErrorReplacesLast(msgs) == [msgs EXCEPT ![Len(msgs)] = ApologyMessage]

\* a slip of the catch block: the error is only logged
OnQueryErrorLogOnly(msgs) == msgs

\* sendMessage: the catch block of the chat query
OnQueryError(msgs) == Append(msgs, ApologyMessage)

\* a slip of sendMessage: no finally block, isLoading is not reset
QueryOkStaysLoading(i, answer) ==
  /\ i \in 1..Len(inflight)
  /\ inflight[i].stage = "query"
  /\ answer \in Answers
  /\ messages' = Append(messages, AiMessage(answer))
  /\ ids' = Append(ids, NumId(now + 1))
  /\ lastNet' = "query:ok"
  /\ inflight' = Remove(inflight, i)
  /\ UNCHANGED <<inputMessage, isLoading, isUploading, selectedFile,
                 uploadProgress, fileInput, toast, nCalls, trigger, now>>
  /\ UNCHANGED notChat

\* the chat query resolves: the assistant's message is appended
QueryOk(i, answer) ==
  /\ i \in 1..Len(inflight)
  /\ inflight[i].stage = "query"
  /\ answer \in Answers
  /\ messages' = Append(messages, AiMessage(answer))
  /\ ids' = Append(ids, NumId(now + 1))
  /\ isLoading' = FALSE
  /\ lastNet' = "query:ok"
  /\ inflight' = Remove(inflight, i)
  /\ UNCHANGED <<inputMessage, isUploading, selectedFile, uploadProgress,
                 fileInput, toast, nCalls, trigger, now>>
  /\ UNCHANGED notChat

\* the chat query rejects: the apology is appended
QueryFailed(i) ==
  /\ i \in 1..Len(inflight)
  /\ inflight[i].stage = "query"
  /\ messages' = OnQueryError(messages)
  /\ ids' = Append(ids, NumId(now + 1))
  /\ isLoading' = FALSE
  /\ lastNet' = "query:failed"
  /\ inflight' = Remove(inflight, i)
  /\ UNCHANGED <<inputMessage, isUploading, selectedFile, uploadProgress,
                 fileInput, toast, nCalls, trigger, now>>
  /\ UNCHANGED notChat

\* a millisecond passes
Tick ==
  /\ now < MountTime + MaxTicks
  /\ now' = now + 1
  /\ UNCHANGED <<messages, ids, inputMessage, isLoading, isUploading,
                 selectedFile, uploadProgress, fileInput, toast, inflight,
                 lastNet, nCalls, trigger>>
  /\ UNCHANGED notChat

ChatNext ==
  \/ \E t \in Texts : TypeInput(t)
  \/ \E f \in Files \cup {NULL} : handleFileChange(f)
  \/ removeFile
  \/ ClickSend
  \/ \E shiftKey \in BOOLEAN : PressEnter(shiftKey)
  \/ \E i \in 1..MaxInflight, ev \in ProgressEvents : UploadProgress(i, ev)
  \/ \E i \in 1..MaxInflight : UploadOk(i)
  \/ \E i \in 1..MaxInflight : UploadFailed(i)
  \/ \E i \in 1..MaxInflight, answer \in Answers : QueryOk(i, answer)
  \/ \E i \in 1..MaxInflight : QueryFailed(i)

(***************************************************************************)
(* App, LoginForm and SymptomChecker                                       *)
(***************************************************************************)

MaxSymptoms == 3

Names == {"", " ", "ann"}
Passwords == {"", "pw"}
Views == {"chat", "symptoms", "emergency"}

FILL_ALL_FIELDS == "Please fill in all fields"
INVALID_LOGIN == "Invalid username or password"
NO_SYMPTOM == "Please enter at least one symptom"
ANALYSIS_FAILED == "Failed to analyze symptoms. Please try again."

\* a handler that is called without an index
NO_INDEX == 0

\* no call of onLogin or onAnalyze is awaited
Idle == awaited' = "none" /\ awaitedArg' = NULL /\ awaitedMounted' = FALSE

\* the state a LoginForm, and a SymptomChecker, is mounted with
AppInit ==
  /\ currentView = "chat"
  /\ isLoggedIn = FALSE
  /\ symptomResults = NULL
  /\ appIsLoading = FALSE
  /\ username = ""
  /\ password = ""
  /\ loginError = ""
  /\ symptoms = << << >> >>
  /\ symptomError = ""
  /\ awaited = "none"
  /\ awaitedArg = NULL
  /\ awaitedMounted = FALSE
  /\ appEvent = "none"
  /\ appIndex = NO_INDEX

\* a slip of renderContent: the view is looked at before the login state
renderContentByViewFirst(view, loggedIn) ==
  CASE view = "symptoms" -> "SymptomChecker"
    [] view = "emergency" -> "Emergency"
    [] view = "chat" -> "Chat"
    [] OTHER -> IF loggedIn THEN "Chat" ELSE "LoginForm"

\* App.renderContent: the component rendered below the navigation bar
renderContent(view, loggedIn) ==
  IF ~loggedIn THEN "LoginForm"
  ELSE CASE view = "symptoms" -> "SymptomChecker"
         [] view = "emergency" -> "Emergency"
         [] OTHER -> "Chat"

\* App.renderNavigation: the navigation bar is rendered
renderNavigation(loggedIn) == loggedIn

Rendered == renderContent(currentView, isLoggedIn)

\* the mock results of handleSymptomAnalysis
MockResults(list) == <<list, "medium">>

\* a component that is unmounted loses its state; the next one mounted starts
\* from its useState initial values
FreshLoginForm == username' = "" /\ password' = "" /\ loginError' = ""
FreshSymptomChecker == symptoms' = << << >> >> /\ symptomError' = ""

\* the SymptomChecker whose handleAnalyze awaits onAnalyze is unmounted
Orphaned == awaitedMounted' = FALSE /\ UNCHANGED <<awaited, awaitedArg>>

(* LoginForm *)

setUsername(value) ==
  /\ Rendered = "LoginForm"
  /\ ~appIsLoading
  /\ username' = value
  /\ appEvent' = "setUsername" /\ appIndex' = NO_INDEX
  /\ UNCHANGED <<currentView, isLoggedIn, symptomResults, appIsLoading,
                 password, loginError, symptoms, symptomError, awaited,
                 awaitedArg, awaitedMounted>>
  /\ UNCHANGED notApp

setPassword(value) ==
  /\ Rendered = "LoginForm"
  /\ ~appIsLoading
  /\ password' = value
  /\ appEvent' = "setPassword" /\ appIndex' = NO_INDEX
  /\ UNCHANGED <<currentView, isLoggedIn, symptomResults, appIsLoading,
                 username, loginError, symptoms, symptomError, awaited,
                 awaitedArg, awaitedMounted>>
  /\ UNCHANGED notApp

\* a slip of the test of handleSubmit: both fields must be empty
MissingFieldBoth(user, pass) == user = "" /\ pass = ""

\* !username || !password
MissingField(user, pass) == user = "" \/ pass = ""

\* LoginForm.handleSubmit up to its await, with App.handleLogin up to its own
handleSubmit ==
  /\ Rendered = "LoginForm"
  /\ ~appIsLoading
  /\ appEvent' = "handleSubmit" /\ appIndex' = NO_INDEX
  /\ IF MissingField(username, password)
     THEN /\ loginError' = FILL_ALL_FIELDS
          /\ UNCHANGED <<appIsLoading, awaited, awaitedArg, awaitedMounted>>
     ELSE /\ loginError' = ""
          /\ appIsLoading' = TRUE
          /\ awaited' = "login"
          /\ awaitedArg' = <<username, password>>
          /\ awaitedMounted' = TRUE
  /\ UNCHANGED <<currentView, isLoggedIn, symptomResults, username, password,
                 symptoms, symptomError>>
  /\ UNCHANGED notApp

\* the promise handleLogin awaits resolves: the user is logged in, and the
\* LoginForm is unmounted
LoginResolves ==
  /\ awaited = "login"
  /\ isLoggedIn' = TRUE
  /\ currentView' = "chat"
  /\ appIsLoading' = FALSE
  /\ Idle
  /\ appEvent' = "login:ok" /\ appIndex' = NO_INDEX
  /\ FreshLoginForm
  /\ UNCHANGED <<symptomResults, symptoms, symptomError>>
  /\ UNCHANGED notApp

\* the promise handleLogin awaits rejects (the API call the timer of line 22
\* stands for fails): handleLogin rethrows, and handleSubmit catches
LoginRejects ==
  /\ awaited = "login"
  /\ appIsLoading' = FALSE
  /\ Idle
  /\ appEvent' = "login:failed" /\ appIndex' = NO_INDEX
  /\ loginError' = INVALID_LOGIN
  /\ UNCHANGED <<currentView, isLoggedIn, symptomResults, username, password,
                 symptoms, symptomError>>
  /\ UNCHANGED notApp

(* the navigation bar *)

setCurrentView(view) ==
  /\ renderNavigation(isLoggedIn)
  /\ currentView' = view
  /\ appEvent' = "setCurrentView" /\ appIndex' = NO_INDEX
  /\ IF Rendered = "SymptomChecker" /\ view # "symptoms"
     THEN FreshSymptomChecker /\ Orphaned
     ELSE UNCHANGED <<symptoms, symptomError, awaited, awaitedArg,
                      awaitedMounted>>
  /\ UNCHANGED <<isLoggedIn, symptomResults, appIsLoading, username, password,
                 loginError>>
  /\ UNCHANGED notApp

\* the Logout button: a LoginForm is mounted in place of the view
Logout ==
  /\ renderNavigation(isLoggedIn)
  /\ isLoggedIn' = FALSE
  /\ currentView' = "login"
  /\ appEvent' = "Logout" /\ appIndex' = NO_INDEX
  /\ FreshSymptomChecker
  /\ Orphaned
  /\ FreshLoginForm
  /\ UNCHANGED <<symptomResults, appIsLoading>>
  /\ UNCHANGED notApp

(* SymptomChecker *)

\* [...symptoms, '']
WithSymptom(list) == Append(list, << >>)

\* a slip of removeSymptom: the first field is dropped whatever the index
WithoutFirst(list, index) == IF Len(list) > 1 THEN Tail(list) ELSE list

\* symptoms.filter((_, i) => i !== index), when there is more than one field
WithoutSymptom(list, index) ==
  IF Len(list) > 1 THEN Remove(list, index) ELSE list

\* symptoms with symptoms[index] = value
WithSymptomSet(list, index, value) == [list EXCEPT ![index] = value]

\* a slip of the filter of handleAnalyze: the fields are not trimmed
RECURSIVE validSymptomsUntrimmed(_)
validSymptomsUntrimmed(list) ==
  IF list = << >> THEN << >>
  ELSE (IF Head(list) # << >> THEN <<Head(list)>> ELSE << >>)
         \o validSymptomsUntrimmed(Tail(list))

\* symptoms.filter(s => s.trim() !== '')
RECURSIVE validSymptoms(_)
validSymptoms(list) ==
  IF list = << >> THEN << >>
  ELSE (IF trim(Head(list)) # << >> THEN <<Head(list)>> ELSE << >>)
         \o validSymptoms(Tail(list))

addSymptom ==
  /\ Rendered = "SymptomChecker"
  /\ ~appIsLoading
  /\ Len(symptoms) < MaxSymptoms
  /\ symptoms' = WithSymptom(symptoms)
  /\ appEvent' = "addSymptom" /\ appIndex' = NO_INDEX
  /\ UNCHANGED <<currentView, isLoggedIn, symptomResults, appIsLoading,
                 username, password, loginError, symptomError, awaited,
                 awaitedArg, awaitedMounted>>
  /\ UNCHANGED notApp

\* the remove button of a field is rendered when there is more than one field
removeSymptom(index) ==
  /\ Rendered = "SymptomChecker"
  /\ ~appIsLoading
  /\ Len(symptoms) > 1
  /\ index \in 1..Len(symptoms)
  /\ symptoms' = WithoutSymptom(symptoms, index)
  /\ appEvent' = "removeSymptom" /\ appIndex' = index
  /\ UNCHANGED <<currentView, isLoggedIn, symptomResults, appIsLoading,
                 username, password, loginError, symptomError, awaited,
                 awaitedArg, awaitedMounted>>
  /\ UNCHANGED notApp

updateSymptom(index, value) ==
  /\ Rendered = "SymptomChecker"
  /\ ~appIsLoading
  /\ index \in 1..Len(symptoms)
  /\ symptoms' = WithSymptomSet(symptoms, index, value)
  /\ appEvent' = "updateSymptom" /\ appIndex' = index
  /\ UNCHANGED <<currentView, isLoggedIn, symptomResults, appIsLoading,
                 username, password, loginError, symptomError, awaited,
                 awaitedArg, awaitedMounted>>
  /\ UNCHANGED notApp

\* SymptomChecker.handleAnalyze up to its await, with
\* App.handleSymptomAnalysis up to its own
handleAnalyze ==
  /\ Rendered = "SymptomChecker"
  /\ ~appIsLoading
  /\ appEvent' = "handleAnalyze" /\ appIndex' = NO_INDEX
  /\ IF Len(validSymptoms(symptoms)) = 0
     THEN /\ symptomError' = NO_SYMPTOM
          /\ UNCHANGED <<appIsLoading, awaited, awaitedArg, awaitedMounted>>
     ELSE /\ symptomError' = ""
          /\ appIsLoading' = TRUE
          /\ awaited' = "analyze"
          /\ awaitedArg' = validSymptoms(symptoms)
          /\ awaitedMounted' = TRUE
  /\ UNCHANGED <<currentView, isLoggedIn, symptomResults, username, password,
                 loginError, symptoms>>
  /\ UNCHANGED notApp

\* the promise handleSymptomAnalysis awaits resolves
AnalysisResolves ==
  /\ awaited = "analyze"
  /\ symptomResults' = MockResults(awaitedArg)
  /\ appIsLoading' = FALSE
  /\ Idle
  /\ appEvent' = "analyze:ok" /\ appIndex' = NO_INDEX
  /\ UNCHANGED <<currentView, isLoggedIn, username, password, loginError,
                 symptoms, symptomError>>
  /\ UNCHANGED notApp

\* the promise handleSymptomAnalysis awaits rejects (the call of the backend
\* the timer of line 36 stands for fails): handleSymptomAnalysis rethrows, and
\* handleAnalyze catches; setError of an unmounted component changes nothing
AnalysisRejects ==
  /\ awaited = "analyze"
  /\ appIsLoading' = FALSE
  /\ Idle
  /\ appEvent' = "analyze:failed" /\ appIndex' = NO_INDEX
  /\ symptomError' = IF awaitedMounted THEN ANALYSIS_FAILED ELSE symptomError
  /\ UNCHANGED <<currentView, isLoggedIn, symptomResults, username, password,
                 loginError, symptoms>>
  /\ UNCHANGED notApp

AppNext ==
  \/ \E value \in Names : setUsername(value)
  \/ \E value \in Passwords : setPassword(value)
  \/ handleSubmit
  \/ LoginResolves
  \/ LoginRejects
  \/ \E view \in Views : setCurrentView(view)
  \/ Logout
  \/ addSymptom
  \/ \E index \in 1..MaxSymptoms : removeSymptom(index)
  \/ \E index \in 1..MaxSymptoms, value \in Texts : updateSymptom(index, value)
  \/ handleAnalyze
  \/ AnalysisResolves
  \/ AnalysisRejects

(***************************************************************************)
(* Properties of the API client                                            *)
(***************************************************************************)
ViaRequest(p) == op[p] \in {"request", "logout"}

\* the step settles the call of p
Settles(p) == pc[p] # "done" /\ pc'[p] = "done"

\* the step sends the request of p (the first time or again)
SendsRequest(p) == pc[p] # "fetch" /\ pc'[p] = "fetch"

\* the step delivers an answer with a status to the request of p
Answered(p) == pc[p] = "fetch" /\ status[p] = 0 /\ status'[p] # 0

AuthKeysAbsent(store) ==
  /\ store[ACCESS_TOKEN] = NULL
  /\ store[REFRESH_TOKEN] = NULL
  /\ store[USER_DATA] = NULL

\* C1: one call of request starts at most one token refresh and sends its
\* request at most twice (once, and once more after a 401), whatever the
\* server answers.
C1_OneRefreshOneRetry ==
  \A p \in Calls : ViaRequest(p) => (refreshes[p] <= 1 /\ sends[p] <= 2)

\* C2: in the step in which a call of logout settles, with any result and
\* on any path, the three auth keys are absent from local storage.
C2_LogoutClearsKeys ==
  [][\A p \in Calls : (op[p] = "logout" /\ Settles(p)) => AuthKeysAbsent(ls')]_vars

\* a logout that went through a 401 and a failed refresh has settled with an
\* error and the keys are gone
C2_Witness ==
  \E p \in Calls :
    /\ op[p] = "logout" /\ pc[p] = "done" /\ outcome[p] = "error"
    /\ refreshes[p] = 1 /\ sends[p] = 1
    /\ AuthKeysAbsent(ls)

\* C6: an answer with a non-OK status other than 401 settles the call with
\* an error in that step, and neither starts a refresh nor sends again.
C6_ErrorPropagates ==
  [][\A p \in Calls :
       (ViaRequest(p) /\ Answered(p) /\ ~IsOk(status'[p]) /\ status'[p] # 401)
       => /\ pc'[p] = "done"
          /\ outcome'[p] = "error"
          /\ refreshes'[p] = refreshes[p]
          /\ sends'[p] = sends[p]]_vars

C6_Witness ==
  \E p \in Calls :
    /\ op[p] = "request" /\ pc[p] = "done" /\ outcome[p] = "error"
    /\ status[p] = 500 /\ refreshes[p] = 0 /\ sends[p] = 1

\* C7: every request sent by request carries Authorization: Bearer t for
\* the access token t stored at that moment, and no Authorization header
\* when none is stored; so the request sent again after a refresh carries
\* the refreshed token.
C7_AuthHeaderIsStoredToken ==
  [][\A p \in Calls :
       (SendsRequest(p) /\ ViaRequest(p)')
       => hdr'[p] = IF ls'[ACCESS_TOKEN] = NULL THEN NULL
                    ELSE <<"Bearer", ls'[ACCESS_TOKEN]>>]_vars

\* a request answered with 401 is in flight again with the refreshed token
C7_Witness ==
  \E p \in Calls :
    /\ ViaRequest(p) /\ pc[p] = "fetch"
    /\ sends[p] = 2 /\ refreshes[p] = 1
    /\ hdr[p] = <<"Bearer", AccessTok(issued)>>
    /\ ls[ACCESS_TOKEN] = AccessTok(issued)

\* the step is one of the writers: a login answer, a refresh answer, the
\* settling of logout, or clearAuthData
WriterStep ==
  \/ \E q \in Calls : pc[q] = "loginFetch" /\ Settles(q)
  \/ \E q \in Calls : pc[q] = "refresh" /\ pc'[q] # "refresh"
  \/ \E q \in Calls : op[q] = "logout" /\ Settles(q)
  \/ (pc' = pc /\ ls' = clearAuthData(ls))

\* C8: local storage changes only in a step of login, of a token refresh, of
\* logout or of clearAuthData; a step that answers another method's request
\* with a status other than 401 leaves every key as it was.
C8_OnlyWritersWrite ==
  [][/\ ls' # ls => WriterStep
     /\ \A p \in Calls :
          (op[p] = "request" /\ Answered(p) /\ status'[p] # 401) => ls' = ls]_vars

\* a request was answered 200 and one 500 while tokens and user data are
\* stored
C8_Witness ==
  /\ \E p \in Calls : op[p] = "request" /\ pc[p] = "done" /\ status[p] = 500
  /\ \E p \in Calls : op[p] = "request" /\ pc[p] = "done" /\ status[p] = 200
  /\ ls[ACCESS_TOKEN] # NULL /\ ls[REFRESH_TOKEN] # NULL /\ ls[USER_DATA] # NULL

\* the stored tokens are those of one response, or both absent
SamePair(store) ==
  \/ store[ACCESS_TOKEN] = NULL /\ store[REFRESH_TOKEN] = NULL
  \/ \E n \in 0..MaxIssue :
       store[ACCESS_TOKEN] = AccessTok(n) /\ store[REFRESH_TOKEN] = RefreshTok(n)

\* C10: local storage holds the tokens of the writer that completed last,
\* and the stored access and refresh token always come from one response.
C10_LastWriteWins ==
  /\ ls[ACCESS_TOKEN] = lastWrite.access_token
  /\ ls[REFRESH_TOKEN] = lastWrite.refresh_token
  /\ SamePair(ls)

\* a login and a request's refresh overlapped, both stored their tokens and
\* both calls have settled
C10_Witness ==
  /\ overlap
  /\ \A p \in Calls : pc[p] = "done"
  /\ \E p, q \in Calls :
       /\ op[p] = "login" /\ outcome[p] = "ok"
       /\ op[q] = "request" /\ sends[q] = 2
  /\ ls[ACCESS_TOKEN] = AccessTok(issued)

\* C11: a request whose timer fires while it waits for its answer settles
\* in that step with the abort error, without starting a refresh or sending
\* again; and a timer is pending only while its request waits for the
\* answer, never once the call has settled.
C11_TimeoutAborts ==
  /\ [](\A p \in Calls : timer[p] => pc[p] = "fetch")
  /\ [][\A p \in Calls :
          (Settles(p) /\ thrown'[p] = ABORT_ERROR)
          => /\ pc[p] = "fetch" /\ timer[p] /\ ~timer'[p]
             /\ outcome'[p] = "error"
             /\ refreshes'[p] = refreshes[p]
             /\ sends'[p] = sends[p]]_vars

\* a request sent again after a refresh was aborted by its timer, and a
\* second one sent once; no timer is left
C11_Witness ==
  /\ \E p \in Calls :
       /\ op[p] = "request" /\ pc[p] = "done" /\ thrown[p] = ABORT_ERROR
       /\ sends[p] = 2 /\ refreshes[p] = 1
  /\ \E p \in Calls :
       /\ op[p] = "request" /\ pc[p] = "done" /\ thrown[p] = ABORT_ERROR
       /\ sends[p] = 1 /\ refreshes[p] = 0 /\ status[p] = 0
  /\ \A p \in Calls : ~timer[p]

\* C15: when the refresh a 401 started is answered non-OK, the call settles
\* in that step with the refresh error and without sending its request
\* again; both tokens are then absent, so isAuthenticated is false, and
\* for a caller other than logout the user data and every other key are as
\* they were.
C15_RefreshFailure ==
  [][\A p \in Calls :
       (ViaRequest(p) /\ pc[p] = "refresh" /\ Settles(p)
          /\ thrown'[p] = REFRESH_FAILED)
       => /\ outcome'[p] = "error"
          /\ sends'[p] = sends[p]
          /\ refreshes'[p] = refreshes[p]
          /\ ls'[ACCESS_TOKEN] = NULL /\ ls'[REFRESH_TOKEN] = NULL
          /\ ~isAuthenticated(ls')
          /\ op[p] = "request"
             => \A k \in STORAGE_KEYS \ {ACCESS_TOKEN, REFRESH_TOKEN} :
                  ls'[k] = ls[k]]_vars

\* a request was answered 401 and its refresh failed: sent once, the tokens
\* are gone and the user data is still stored
C15_Witness ==
  \E p \in Calls :
    /\ op[p] = "request" /\ pc[p] = "done" /\ thrown[p] = REFRESH_FAILED
    /\ status[p] = 401 /\ sends[p] = 1 /\ refreshes[p] = 1
    /\ ls[ACCESS_TOKEN] = NULL /\ ls[REFRESH_TOKEN] = NULL
    /\ ls[USER_DATA] = UserData

\* the step is clearAuthData(): the only step that is no step of a call
ClearAuthDataStep == pc' = pc /\ op' = op

\* C16: the settling of logout and clearAuthData leave the three auth keys
\* absent and every other key, vaidya_chat_history among them, as it was;
\* and clearAuthData on a storage it has cleared changes nothing.
C16_OnlyAuthKeysRemoved ==
  /\ [][((\E p \in Calls : op[p] = "logout" /\ Settles(p)) \/ ClearAuthDataStep)
        => /\ AuthKeysAbsent(ls')
           /\ \A k \in STORAGE_KEYS \ {ACCESS_TOKEN, REFRESH_TOKEN, USER_DATA} :
                ls'[k] = ls[k]]_vars
  /\ [][(ClearAuthDataStep /\ AuthKeysAbsent(ls)) => ls' = ls]_vars
  /\ [](clearAuthData(clearAuthData(ls)) = clearAuthData(ls))

\* logout was answered 200: the three keys are gone and the chat history is
\* still stored
C16_Witness ==
  /\ \E p \in Calls :
       /\ op[p] = "logout" /\ pc[p] = "done" /\ outcome[p] = "ok"
       /\ status[p] = 200
  /\ AuthKeysAbsent(ls)
  /\ ls[CHAT_HISTORY] = History

\* the request of p is in flight again after its own successful refresh, and
\* the access token that refresh stored is the one stored now
HoldsOwnRefresh(p) ==
  /\ op[p] = "request" /\ pc[p] = "fetch" /\ sends[p] >= 2
  /\ ls[ACCESS_TOKEN] # NULL
  /\ hdr[p] = <<"Bearer", ls[ACCESS_TOKEN]>>

\* the step delivers the answer (or the rejection) of the refresh of q
RefreshSettles(q) == ViaRequest(q) /\ pc[q] = "refresh" /\ pc'[q] # "refresh"

\* C19 as claimed: the failed refresh of one request leaves the access token
\* in place that the successful refresh of another, overlapping request
\* stored.
C19_FailedRefreshKeepsTokens ==
  [][\A p, q \in Calls :
       (p # q /\ HoldsOwnRefresh(p) /\ op[q] = "request"
          /\ RefreshSettles(q) /\ thrown'[q] = REFRESH_FAILED)
       => ls'[ACCESS_TOKEN] = ls[ACCESS_TOKEN]]_vars

\* C19: every 401 makes the request it answers call refreshToken itself,
\* whatever other requests do; and the answer of each refresh decides the
\* stored tokens alone: OK stores its pair, non-OK removes both tokens, also
\* those an overlapping request's successful refresh has stored, and a
\* rejected refresh fetch leaves them.
C19_LastRefreshDecides ==
  /\ [][\A p \in Calls :
          (ViaRequest(p) /\ Answered(p) /\ status'[p] = 401)
          => refreshes'[p] = refreshes[p] + 1]_vars
  /\ [][\A q \in Calls :
          (op[q] = "request" /\ RefreshSettles(q))
          => IF pc'[q] = "fetch"
             THEN /\ ls'[ACCESS_TOKEN] = AccessTok(issued')
                  /\ ls'[REFRESH_TOKEN] = RefreshTok(issued')
                  /\ issued' = issued + 1
             ELSE IF thrown'[q] = REFRESH_FAILED
             THEN ls'[ACCESS_TOKEN] = NULL /\ ls'[REFRESH_TOKEN] = NULL
             ELSE ls' = ls]_vars

\* two requests overlapped and both were answered 401; the refresh of one
\* succeeded and its request was sent again and answered, the refresh of the
\* other failed: both have settled and no access token is stored
C19_Witness ==
  /\ overlap
  /\ issued = 1
  /\ \E p, q \in Calls :
       /\ op[p] = "request" /\ pc[p] = "done" /\ outcome[p] = "ok"
       /\ sends[p] = 2 /\ refreshes[p] = 1
       /\ op[q] = "request" /\ pc[q] = "done" /\ thrown[q] = REFRESH_FAILED
       /\ sends[q] = 1 /\ refreshes[q] = 1
  /\ ls[ACCESS_TOKEN] = NULL /\ ls[REFRESH_TOKEN] = NULL

\* C20: under LiveSpec, where every network call awaited is answered,
\* rejected or aborted in the end, every call of request that awaits its
\* answer or its refresh settles in the end, the calls made by logout among
\* them (logout clears the keys when its request has settled).
C20_RequestSettles ==
  \A p \in Calls :
    (ViaRequest(p) /\ pc[p] \in {"fetch", "refresh"}) ~> (pc[p] = "done")

\* the call of p is a login, and this step settles it
LoginSettles(p) ==
  op[p] = "login" /\ pc[p] = "loginFetch" /\ pc'[p] = "done"

\* C27: a successful login stores the access token and the refresh token, and
\* isAuthenticated holds afterwards; a login answered with a status that is
\* not ok throws 'Login failed' and leaves the local storage as it was; a
\* login starts no token refresh and sends nothing again, on a 401 either.
C27_Login ==
  /\ [][\A p \in Calls :
          LoginSettles(p)
            => /\ refreshes'[p] = 0 /\ sends'[p] = 0
               /\ IF status'[p] # status[p] /\ IsOk(status'[p])
                  THEN /\ outcome'[p] = "ok"
                       /\ Truthy(getItem(ls', ACCESS_TOKEN))
                       /\ Truthy(getItem(ls', REFRESH_TOKEN))
                       /\ getItem(ls', ACCESS_TOKEN) = lastWrite'.access_token
                       /\ getItem(ls', REFRESH_TOKEN) = lastWrite'.refresh_token
                       /\ lastWrite' # lastWrite
                       /\ getItem(ls', USER_DATA) = getItem(ls, USER_DATA)
                       /\ isAuthenticated(ls')
                  ELSE /\ outcome'[p] = "error"
                       /\ ls' = ls
                       /\ status'[p] # status[p] => thrown'[p] = LOGIN_FAILED]_vars
  /\ [](\A p \in Calls :
          op[p] = "login"
            => /\ pc[p] \in {"loginFetch", "done"}
               /\ pc[p] = "loginFetch" <=> status[p] = 0
                                              /\ outcome[p] = "none"
               /\ refreshes[p] = 0 /\ sends[p] = 0 /\ ~timer[p]
               /\ hdr[p] = NULL)

\* a login was answered with 401 while a refresh token was stored: it threw
\* 'Login failed', the tokens are still there, and no refresh was started
C27_Witness ==
  \E p \in Calls :
    /\ op[p] = "login"
    /\ pc[p] = "done"
    /\ status[p] = 401
    /\ thrown[p] = LOGIN_FAILED
    /\ Truthy(getItem(ls, REFRESH_TOKEN))
    /\ refreshes[p] = 0

(***************************************************************************)
(* Properties of the Chat view                                             *)
(***************************************************************************)
\* the step is a call of sendMessage
SendMessageCalled == nCalls' = nCalls + 1

\* the step settles a network call of the Chat view
NetSettled == nCalls' = nCalls /\ inflight' # inflight

WithinLimit(f) == f = NULL \/ FileSize(f) <= 10 * 1024 * 1024

\* C3: the selected file is absent or at most 10 MB, no upload is in flight
\* for a larger file, and a change of the file input to a file over 10 MB
\* raises the size error toast and leaves the selected file as it was.
C3_OversizeRejected ==
  /\ [](/\ WithinLimit(selectedFile)
        /\ \A i \in 1..Len(inflight) :
             inflight[i].stage = "upload" => WithinLimit(inflight[i].file))
  /\ [][(fileInput' # fileInput /\ fileInput' # NULL
           /\ FileSize(fileInput') > 10 * 1024 * 1024)
        => (toast' = SIZE_ERROR /\ selectedFile' = selectedFile
              /\ inflight' = inflight)]_vars

\* a file of 10 MB + 1 was picked while a 10 MB file was selected: it was
\* rejected with the toast and the selection is unchanged
C3_Witness ==
  /\ fileInput = File("report.pdf", MAX_FILE_SIZE + 1)
  /\ selectedFile = File("report.pdf", MAX_FILE_SIZE)
  /\ toast = SIZE_ERROR
  /\ inflight = << >>

\* C4: a call of sendMessage with an empty or whitespace-only input and no
\* selected file changes neither the messages, the input, isLoading,
\* isUploading nor uploadProgress, and starts no network call.
C4_EmptySendIsNoOp ==
  [][(SendMessageCalled /\ trim(inputMessage) = << >> /\ selectedFile = NULL)
     => UNCHANGED <<messages, inputMessage, isLoading, isUploading,
                    uploadProgress, inflight, selectedFile, toast>>]_vars

\* sendMessage was called on a whitespace-only input: nothing but the call
\* count has moved
C4_Witness ==
  /\ nCalls = 1
  /\ inputMessage = <<" ">>
  /\ selectedFile = NULL
  /\ messages = <<GreetingMessage>>
  /\ inflight = << >>
  /\ ~isLoading /\ ~isUploading /\ uploadProgress = 0
  /\ toast = "none" /\ lastNet = "none"

\* C5: when a chat query fails, the apology is appended once to the list,
\* which still holds the user's message, isLoading becomes false, and no
\* query is sent in its place.
C5_QueryFailureApology ==
  [][(NetSettled /\ lastNet' = "query:failed")
     => \E i \in 1..Len(inflight) :
          /\ inflight[i].stage = "query"
          /\ inflight' = Remove(inflight, i)
          /\ \E j \in 1..Len(messages) :
               messages[j] = UserMessage(inflight[i].text)
          /\ messages' = Append(messages, ApologyMessage)
          /\ isLoading' = FALSE]_vars

\* a query failed: the list ends with the user's message and the apology
C5_Witness ==
  /\ lastNet = "query:failed"
  /\ Len(messages) = 3
  /\ messages[2] = UserMessage(<<"h", "i">>)
  /\ messages[3] = ApologyMessage
  /\ ~isLoading
  /\ inflight = << >>

\* C9: at most one upload or chat query of the Chat view is in flight, and
\* while one is, isLoading or isUploading holds and the text input and the
\* send button are disabled; the query of a text sent together with a file
\* is in flight only after the upload has settled.
C9_Sequential ==
  /\ Len(inflight) <= 1
  /\ inflight # << >> => ((isLoading \/ isUploading) /\ InputDisabled /\ SendDisabled)
  /\ \A i \in 1..Len(inflight) :
       /\ inflight[i].stage = "upload" => (isUploading /\ ~isLoading)
       /\ inflight[i].stage = "query" => (isLoading /\ ~isUploading)

\* a text was sent together with a file: the upload has settled (its system
\* message is in the list) and the query is the one call in flight
C9_Witness ==
  /\ Len(inflight) = 1
  /\ inflight[1].stage = "query" /\ inflight[1].file # NULL
  /\ lastNet = "upload:ok"
  /\ messages[Len(messages)] = UserMessage(inflight[1].text)
  /\ messages[Len(messages) - 1] = SystemMessage(inflight[1].file)
  /\ isLoading /\ ~isUploading

\* s is an initial part of t
IsPrefix(s, t) == Len(s) <= Len(t) /\ SubSeq(t, 1, Len(s)) = s

Replies == {AiMessage(answer) : answer \in Answers} \cup {ApologyMessage}

\* C12: the greeting is always the first message; every step leaves the
\* messages it found in place and unchanged, adding new ones at the end
\* only; and when a chat query settles, exactly one message is added at the
\* end, the assistant's answer or the apology, behind the user message of
\* that query.
C12_AppendOnly ==
  /\ [](messages # << >> /\ messages[1] = GreetingMessage)
  /\ [][IsPrefix(messages, messages')]_vars
  /\ [][(NetSettled /\ lastNet' \in {"query:ok", "query:failed"})
        => \E i \in 1..Len(inflight) :
             /\ inflight[i].stage = "query"
             /\ inflight' = Remove(inflight, i)
             /\ \E j \in 1..Len(messages) :
                  messages[j] = UserMessage(inflight[i].text)
             /\ Len(messages') = Len(messages) + 1
             /\ messages'[Len(messages')] \in Replies]_vars

\* a text sent with a file was answered and a second text got the apology:
\* greeting, system message, text, answer, text, apology
C12_Witness ==
  /\ Len(messages) = 6
  /\ messages[1] = GreetingMessage
  /\ messages[2] = SystemMessage(File("report.pdf", 0))
  /\ messages[3] = UserMessage(<<"h", "i">>)
  /\ messages[4] \in {AiMessage(answer) : answer \in Answers}
  /\ messages[5] = UserMessage(<<" ", "h", "i", " ">>)
  /\ messages[6] = ApologyMessage
  /\ inflight = << >>

\* C13: a change of the file input to a file of at most 10 * 1024 * 1024
\* bytes makes it the selected file and raises no toast; a larger file, one
\* byte over included, is rejected with the size error toast and the
\* selection stays as it was.
C13_SizeBoundary ==
  [][(fileInput' # fileInput /\ fileInput' # NULL)
     => IF FileSize(fileInput') <= 10 * 1024 * 1024
        THEN selectedFile' = fileInput' /\ toast' = toast
        ELSE selectedFile' = selectedFile /\ toast' = SIZE_ERROR]_vars

\* a file of 10 MB + 1 was rejected with the toast, then the file of exactly
\* 10 MB was picked and is the selected file
C13_Witness ==
  /\ toast = SIZE_ERROR
  /\ fileInput = File("report.pdf", 10 * 1024 * 1024)
  /\ selectedFile = fileInput
  /\ nCalls = 0

\* C14: Enter without Shift in the text input sends the text typed (the
\* upload or the chat query is started), and Shift+Enter sends nothing: it
\* adds no message and starts no network call.
C14_ShiftEnterDoesNotSend ==
  /\ [][(SendMessageCalled /\ trigger' = "Enter" /\ ~Blank(inputMessage))
        => inflight' # inflight]_vars
  /\ [][(SendMessageCalled /\ trigger' = "Shift+Enter")
        => (messages' = messages /\ inflight' = inflight)]_vars

\* C17: a call of sendMessage with a selected file and a non-blank text
\* starts the upload and nothing else; when that upload fails, the error
\* toast is raised, the messages are as they were, the call ends without a
\* chat query, and the input still holds the text and the selection the file
\* the call was made with.
C17_UploadFailureStops ==
  /\ [][(SendMessageCalled /\ selectedFile # NULL /\ ~Blank(inputMessage))
        => /\ inflight' = Append(inflight, [stage |-> "upload",
                                            text |-> inputMessage,
                                            file |-> selectedFile])
           /\ UNCHANGED <<messages, inputMessage, selectedFile, isLoading>>]_vars
  /\ [][(NetSettled /\ lastNet' = "upload:failed")
        => \E i \in 1..Len(inflight) :
             /\ inflight[i].stage = "upload"
             /\ inflight' = Remove(inflight, i)
             /\ toast' = UPLOAD_ERROR
             /\ messages' = messages
             /\ isLoading' = isLoading
             /\ inputMessage' = inflight[i].text
             /\ selectedFile' = inflight[i].file]_vars

\* a text was sent with a file and the upload failed: the toast is up, the
\* list holds the greeting only, nothing is in flight, text and file remain
C17_Witness ==
  /\ lastNet = "upload:failed"
  /\ toast = UPLOAD_ERROR
  /\ nCalls = 1
  /\ messages = <<GreetingMessage>>
  /\ inflight = << >>
  /\ ~isLoading /\ ~isUploading
  /\ inputMessage = <<"h", "i">>
  /\ selectedFile = File("report.pdf", MAX_FILE_SIZE)

\* C18: when an upload settles, isUploading is false and uploadProgress 0,
\* and they stay so while no upload is in flight; when it succeeded, no file
\* is selected and the messages are those before it, then one system message
\* naming the uploaded file, then the user message of the text sent with it,
\* if any.
C18_UploadSettles ==
  /\ []((\A i \in 1..Len(inflight) : inflight[i].stage # "upload")
          => (~isUploading /\ uploadProgress = 0))
  /\ [][(NetSettled /\ lastNet' \in {"upload:ok", "upload:failed"})
        => (~isUploading' /\ uploadProgress' = 0)]_vars
  /\ [][(NetSettled /\ lastNet' = "upload:ok")
        => \E i \in 1..Len(inflight) :
             /\ inflight[i].stage = "upload"
             /\ selectedFile' = NULL
             /\ messages' =
                  IF trim(inflight[i].text) = << >>
                  THEN Append(messages, SystemMessage(inflight[i].file))
                  ELSE messages \o <<SystemMessage(inflight[i].file),
                                     UserMessage(inflight[i].text)>>]_vars

\* the upload of a file sent with a text succeeded: no upload is flagged,
\* progress is 0, no file is selected, and the system message is followed by
\* the text, whose query is awaited
C18_Witness ==
  /\ lastNet = "upload:ok"
  /\ ~isUploading /\ uploadProgress = 0
  /\ selectedFile = NULL /\ fileInput = NULL
  /\ toast = UPLOAD_OK
  /\ messages = <<GreetingMessage, SystemMessage(File("report.pdf", 0)),
                  UserMessage(<<" ", "h", "i", " ">>)>>
  /\ isLoading

\* a chat query for text is awaited
QueryInFlight(text) ==
  \E i \in 1..Len(inflight) :
    inflight[i].stage = "query" /\ inflight[i].text = text

\* C21: a step that appends a user message sets isLoading, clears the input
\* and has the query of that text awaited; while a query is awaited isLoading
\* holds and the user message is the last one; the step that settles the
\* query appends one reply and resets isLoading, which stays false while no
\* query is awaited; so every user message is directly followed by its
\* reply, or is the last message with its query awaited, and every reply
\* directly follows a user message.
C21_ReplyFollows ==
  /\ [][(Len(messages') > Len(messages)
           /\ messages'[Len(messages')].type = "user")
        => /\ isLoading'
           /\ inputMessage' = << >>
           /\ \E i \in 1..Len(inflight') :
                /\ inflight'[i].stage = "query"
                /\ inflight'[i].text = messages'[Len(messages')].content]_vars
  /\ [][(NetSettled /\ lastNet' \in {"query:ok", "query:failed"})
        => /\ ~isLoading'
           /\ Len(messages') = Len(messages) + 1
           /\ messages'[Len(messages')] \in Replies]_vars
  /\ [](isLoading <=> \E i \in 1..Len(inflight) : inflight[i].stage = "query")
  /\ [](\A j \in 1..Len(messages) :
          /\ messages[j].type = "user"
             => IF j < Len(messages) THEN messages[j + 1] \in Replies
                ELSE isLoading /\ QueryInFlight(messages[j].content)
          /\ messages[j] \in Replies => messages[j - 1].type = "user")

\* a text was sent and answered: the answer follows the user message,
\* isLoading is false again and the input is empty
C21_Witness ==
  /\ messages = <<GreetingMessage, UserMessage(<<"h", "i">>),
                  AiMessage(<<"answer">>)>>
  /\ lastNet = "query:ok"
  /\ ~isLoading
  /\ inputMessage = << >>
  /\ inflight = << >>

\* C22: every message has an id and no two messages have the same id.
C22_DistinctIds ==
  /\ Len(ids) = Len(messages)
  /\ \A i, j \in 1..Len(ids) : i # j => ids[i] # ids[j]

(***************************************************************************)
(* Properties of the App, the login form and the symptom checker           *)
(***************************************************************************)

\* C23: the list of symptom fields is never empty: it starts with one field,
\* addSymptom appends one empty field, updateSymptom changes only the field
\* at its index, and removeSymptom removes exactly the field at its index
\* when there are two fields or more, and changes nothing when there is one.
C23_SymptomFields ==
  /\ [](Len(symptoms) >= 1)
  /\ [](appEvent = "none" => symptoms = << << >> >>)
  /\ [](Len(symptoms) = 1 => WithoutSymptom(symptoms, 1) = symptoms)
  /\ [][appEvent' = "addSymptom"
          => symptoms' = symptoms \o << << >> >>]_vars
  /\ [][\A index \in 1..Len(symptoms) :
          (appEvent' = "updateSymptom" /\ appIndex' = index)
            => /\ Len(symptoms') = Len(symptoms)
               /\ \A j \in 1..Len(symptoms) :
                    j # index => symptoms'[j] = symptoms[j]]_vars
  /\ [][\A index \in 1..Len(symptoms) :
          (appEvent' = "removeSymptom" /\ appIndex' = index)
            => /\ Len(symptoms) >= 2
               /\ Len(symptoms') = Len(symptoms) - 1
               /\ \A j \in 1..Len(symptoms') :
                    symptoms'[j] = symptoms[IF j < index THEN j ELSE j + 1]]_vars

\* the second of two fields was removed, and the first, which is not empty,
\* is left
C23_Witness ==
  /\ appEvent = "removeSymptom"
  /\ appIndex = 2
  /\ Len(symptoms) = 1
  /\ symptoms[1] = <<"h", "i">>

\* the fields that are neither empty nor made of whitespace, by index
Filled(list) == {i \in 1..Len(list) : trim(list[i]) # << >>}

\* the k-th of the indexes of a set, in increasing order
Nth(indexes, k) ==
  CHOOSE i \in indexes : Cardinality({j \in indexes : j <= i}) = k

\* C24: handleAnalyze calls onAnalyze only with a list that is not empty and
\* holds, in their order, exactly the fields that are neither empty nor made of
\* whitespace; when every field is blank it sets the error 'Please enter at
\* least one symptom' and does not call onAnalyze; the error is cleared before
\* onAnalyze is called, and set to the failure text when onAnalyze throws.
C24_ValidSymptomsOnly ==
  /\ [][appEvent' = "handleAnalyze"
          => IF Filled(symptoms) = {}
             THEN /\ symptomError' = NO_SYMPTOM
                  /\ awaited' = "none"
                  /\ UNCHANGED <<awaited, awaitedArg>>
             ELSE /\ symptomError' = ""
                  /\ awaited = "none"
                  /\ awaited' = "analyze"
                  /\ Len(awaitedArg') = Cardinality(Filled(symptoms))
                  /\ \A k \in 1..Len(awaitedArg') :
                       awaitedArg'[k] = symptoms[Nth(Filled(symptoms), k)]]_vars
  /\ [](awaited = "analyze"
          => /\ awaitedArg # << >>
             /\ \A k \in 1..Len(awaitedArg) : trim(awaitedArg[k]) # << >>)
  /\ [][awaited' = "analyze" => appEvent' = "handleAnalyze"
                                       \/ awaited = "analyze"]_vars
  /\ [][(appEvent' = "analyze:failed" /\ awaitedMounted)
          => symptomError' = ANALYSIS_FAILED]_vars

\* onAnalyze was called with the first and the third of three fields, the
\* second being blank, and threw
C24_Witness ==
  /\ appEvent = "analyze:failed"
  /\ symptomError = ANALYSIS_FAILED
  /\ symptoms = << <<"h", "i">>, <<" ">>, <<" ", "h", "i", " ">> >>

\* C25: a submit of the login form with an empty user name or an empty
\* password sets the error 'Please fill in all fields' and does not call
\* onLogin; any other submit calls onLogin once, with the credentials entered;
\* the error of an earlier submit is cleared at the start of every submit, and
\* the error becomes 'Invalid username or password' when onLogin throws.
C25_LoginSubmit ==
  /\ [][appEvent' = "handleSubmit"
          => /\ awaited = "none"
             /\ IF username = "" \/ password = ""
                THEN /\ loginError' = FILL_ALL_FIELDS
                     /\ UNCHANGED <<awaited, awaitedArg>>
                ELSE /\ loginError' = ""
                     /\ awaited' = "login"
                     /\ awaitedArg' = <<username, password>>]_vars
  /\ [][awaited' = "login" => appEvent' = "handleSubmit"
                                     \/ awaited' = awaited]_vars
  /\ [](awaited = "login"
          => /\ awaitedArg = <<username, password>>
             /\ awaitedArg[1] # "" /\ awaitedArg[2] # ""
             /\ loginError = "")
  /\ [][appEvent' = "login:failed"
          => /\ awaited = "login"
             /\ loginError' = INVALID_LOGIN]_vars

\* onLogin was called with a user name and a password, and threw
C25_Witness ==
  /\ appEvent = "login:failed"
  /\ loginError = INVALID_LOGIN
  /\ username = "ann"
  /\ password = "pw"

\* C26: the chat, symptom and emergency views and the navigation bar are
\* rendered only while isLoggedIn holds, and the login form is rendered
\* whenever it does not, whatever currentView holds; a successful login sets
\* the view to chat, Logout resets isLoggedIn and sets the view to login, and
\* the isLoading flag the login and the analysis share is false again once
\* either has settled.
C26_LoginGate ==
  /\ [](Rendered \in {"Chat", "SymptomChecker", "Emergency"} => isLoggedIn)
  /\ [](renderNavigation(isLoggedIn) => isLoggedIn)
  /\ [](~isLoggedIn => Rendered = "LoginForm")
  /\ [](appEvent = "none" => ~isLoggedIn)
  /\ [][appEvent' = "login:ok"
          => ~isLoggedIn /\ isLoggedIn' /\ currentView' = "chat"]_vars
  /\ [][isLoggedIn' /\ ~isLoggedIn => appEvent' = "login:ok"]_vars
  /\ [][appEvent' = "Logout"
          => isLoggedIn /\ ~isLoggedIn' /\ currentView' = "login"]_vars
  /\ [][appEvent' \in {"login:ok", "login:failed",
                       "analyze:ok", "analyze:failed"}
          => appIsLoading /\ ~appIsLoading']_vars
  /\ [](appIsLoading <=> awaited # "none")

\* the user, logged in, started an analysis and logged out: the login form is
\* rendered while the analysis is still awaited
C26_Witness ==
  /\ ~isLoggedIn
  /\ Rendered = "LoginForm"
  /\ appEvent = "Logout"
  /\ currentView = "login"
  /\ awaited = "analyze"
  /\ appIsLoading

Init == ApiInit /\ ChatInit /\ AppInit

Next == ApiNext

\* the API client, the Chat view at rest
Spec == Init /\ [][Next]_vars

\* the network call the call of p awaits is answered, rejected or aborted
Answer(p) ==
  \/ \E st \in Statuses : Respond(p, st)
  \/ NetworkError(p)
  \/ Timeout(p)
  \/ \E ok \in BOOLEAN : RefreshRespond(p, ok)
  \/ RefreshAgain(p)
  \/ RefreshNetworkError(p)
  \/ \E st \in Statuses : LoginRespond(p, st)
  \/ LoginNetworkError(p)
  \/ \E ok \in BOOLEAN : DirectRefreshRespond(p, ok)

\* no network call is awaited for ever
Fairness == \A p \in Calls : WF_vars(Answer(p))

LiveNext ==
  \/ ApiNext
  \/ \E p \in Calls : RefreshAgain(p)

\* the API client with a server that goes on issuing tokens, every network
\* call answered in the end
LiveSpec == Init /\ [][LiveNext]_vars /\ Fairness

ChatSpecInit == ApiStart(FALSE, NULL) /\ ChatInit /\ AppInit

IdSpecNext ==
  \/ ChatNext
  \/ Tick

\* the Chat view with the clock running
IdSpec == ChatSpecInit /\ [][IdSpecNext]_vars


ChatSpecNext == ChatNext

\* the Chat view with the clock and the API client at rest
ChatSpec == ChatSpecInit /\ [][ChatSpecNext]_vars

\* the login form, the navigation bar and the symptom checker alone
AppSpecNext == AppNext
AppSpec == ChatSpecInit /\ [][AppSpecNext]_vars

=============================================================================
